---- MODULE Spec2Model ----
(***************************************************************************)
(* A model of pyrs/clike.py: CLikeTranspiler, the node-to-text visitor     *)
(* that turns a Python syntax tree into Rust-like text.                    *)
(*                                                                         *)
(* Text is a sequence of one-character strings, so that concatenation,     *)
(* first/last characters and collisions of two outputs are what they are   *)
(* in the program.  A Python value (the result of a visit) is a record     *)
(*   [tag |-> "str",   s |-> text, exc |-> ""]       a str                 *)
(*   [tag |-> "None",  s |-> <<>>, exc |-> ""]       None                  *)
(*   [tag |-> "raise", s |-> <<>>, exc |-> name]     a raised exception    *)
(* A syntax tree node is a record with a field kind (the ast class name)   *)
(* and the fields of that class.                                           *)
(***************************************************************************)
EXTENDS Naturals, Sequences, FiniteSets, TLC

VARIABLES node, result, pc

vars == <<node, result, pc>>

(***************************************************************************)
(* Bounds of the checked inputs.                                           *)
(***************************************************************************)
\* parts of an interpolated string
MaxSegs == 2
\* operator/comparator pairs of a comparison chain
MaxChain == 2
\* statements of a conditional's body and of its else-branch
MaxBody == 2

(***************************************************************************)
(* Python values and string primitives.                                    *)
(***************************************************************************)
PyStr(s) == [tag |-> "str", s |-> s, exc |-> ""]

PyNone == [tag |-> "None", s |-> <<>>, exc |-> ""]

Raise(e) == [tag |-> "raise", s |-> <<>>, exc |-> e]

\* the absent child (a field holding None, as Return.value or format_spec)
NoNode == [kind |-> "NoNode"]

\* "{0}".format(v): a str is inserted as it is, None as the text None
Fmt(v) == IF v.tag = "None" THEN <<"N", "o", "n", "e">> ELSE v.s

\* the first raised exception among results evaluated in order, else PyNone
FirstRaise(vs) ==
    IF \E i \in 1..Len(vs) : vs[i].tag = "raise"
    THEN vs[CHOOSE i \in 1..Len(vs) :
               /\ vs[i].tag = "raise"
               /\ \A j \in 1..(i - 1) : vs[j].tag # "raise"]
    ELSE PyNone

RECURSIVE JoinText(_, _)
\* sep.join(texts) on a sequence of texts
JoinText(sep, texts) ==
    IF texts = <<>> THEN <<>>
    ELSE IF Len(texts) = 1 THEN texts[1]
    ELSE texts[1] \o sep \o JoinText(sep, Tail(texts))

\* sep.join(vs) on a sequence of Python values: a TypeError unless all are str
StrJoin(sep, vs) ==
    IF \E i \in 1..Len(vs) : vs[i].tag # "str"
    THEN Raise("TypeError")
    ELSE PyStr(JoinText(sep, [i \in 1..Len(vs) |-> vs[i].s]))

RECURSIVE Concat(_)
\* the concatenation of a sequence of texts
Concat(texts) == IF texts = <<>> THEN <<>> ELSE texts[1] \o Concat(Tail(texts))

\* str.lower on the characters that occur in the inputs
LowerChar(c) == IF c = "T" THEN "t" ELSE IF c = "F" THEN "f" ELSE c

Lower(s) == [i \in 1..Len(s) |-> LowerChar(s[i])]

Digit(d) == <<"0", "1", "2", "3", "4", "5", "6", "7", "8", "9">>[d + 1]

RECURSIVE IntStr(_)
\* str(n) of a natural number: its decimal digits
IntStr(n) == IF n < 10 THEN <<Digit(n)>> ELSE IntStr(n \div 10) \o <<Digit(n % 10)>>

\* s.replace('"', '\\"')
EscapeQuotes(s) ==
    Concat([i \in 1..Len(s) |-> IF s[i] = "\"" THEN <<"\\", "\"">> ELSE <<s[i]>>])

(***************************************************************************)
(* The tables.                                                             *)
(***************************************************************************)
symbols ==
    ("Eq" :> <<"=", "=">>) @@ ("Is" :> <<"=", "=">>) @@ ("NotEq" :> <<"!", "=">>) @@
    ("Pass" :> <<"/", "*", "p", "a", "s", "s", "*", "/">>) @@
    ("Mult" :> <<"*">>) @@ ("Add" :> <<"+">>) @@ ("Sub" :> <<"-">>) @@
    ("Div" :> <<"/">>) @@ ("FloorDiv" :> <<"/">>) @@ ("Mod" :> <<"%">>) @@
    ("Lt" :> <<"<">>) @@ ("Gt" :> <<">">>) @@ ("GtE" :> <<">", "=">>) @@
    ("LtE" :> <<"<", "=">>) @@ ("LShift" :> <<"<", "<">>) @@
    ("RShift" :> <<">", ">">>) @@ ("BitXor" :> <<"^">>) @@ ("BitOr" :> <<"|">>) @@
    ("BitAnd" :> <<"&">>) @@ ("Not" :> <<"!">>) @@ ("IsNot" :> <<"!", "=">>) @@
    ("USub" :> <<"-">>) @@ ("And" :> <<"&", "&">>) @@ ("Or" :> <<"|", "|">>) @@
    ("In" :> <<"i", "n">>)

type_map ==
    (<<"i", "n", "t">> :> <<"i", "3", "2">>) @@
    (<<"f", "l", "o", "a", "t">> :> <<"f", "3", "2">>) @@
    (<<"b", "y", "t", "e", "s">> :> <<"&", "[", "u", "8", "]">>) @@
    (<<"s", "t", "r">> :> <<"&", "s", "t", "r">>)

rust_keywords ==
    { <<"s", "t", "r", "u", "c", "t">>, <<"t", "y", "p", "e">>,
      <<"m", "a", "t", "c", "h">>, <<"i", "m", "p", "l">>,
      <<"c", "o", "n", "s", "t">>, <<"e", "n", "u", "m">>,
      <<"e", "x", "t", "e", "r", "n">>, <<"f", "n">>, <<"l", "o", "o", "p">>,
      <<"m", "o", "v", "e">>, <<"m", "u", "t">>, <<"p", "u", "b">>,
      <<"r", "e", "f">>, <<"t", "r", "a", "i", "t">>,
      <<"w", "h", "e", "r", "e">>, <<"u", "s", "e">>,
      <<"u", "n", "s", "a", "f", "e">> }

builtin_constants == { <<"T", "r", "u", "e">>, <<"F", "a", "l", "s", "e">> }

\* c_symbol(node): the table's token for the node's class
c_symbol(n) == symbols[n.kind]

(***************************************************************************)
(* The handlers of the leaves.                                             *)
(***************************************************************************)
\* hasattr(node, "is_annotation"): the attribute exists, whatever its value
HasAnnotation(n) == n.ann # "absent"

\* visit_Name with the type table consulted before the reserved words and
\* whether or not the node is in annotation position
visit_Name_TypeFirst(n) ==
    IF n.id \in builtin_constants THEN PyStr(Lower(n.id))
    ELSE IF n.id \in DOMAIN type_map THEN PyStr(type_map[n.id])
    ELSE IF n.id \in rust_keywords THEN PyStr(n.id \o <<"_">>)
    ELSE PyStr(n.id)

visit_Name(n) ==
    IF n.id \in builtin_constants THEN PyStr(Lower(n.id))
    ELSE IF n.id \in rust_keywords THEN PyStr(n.id \o <<"_">>)
    ELSE IF HasAnnotation(n) /\ n.id \in DOMAIN type_map THEN PyStr(type_map[n.id])
    ELSE PyStr(n.id)

\* node.value is one of True, False, None
visit_NameConstant(n) ==
    IF n.value.pt = "bool" /\ n.value.b THEN PyStr(<<"t", "r", "u", "e">>)
    ELSE IF n.value.pt = "bool" THEN PyStr(<<"f", "a", "l", "s", "e">>)
    ELSE PyNone

visit_Num(n) == PyStr(IntStr(n.value.n))

visit_Str(n) == PyStr(<<"\"">> \o EscapeQuotes(n.value.s) \o <<"\"">>)

visit_Continue(n) == PyStr(<<"c", "o", "n", "t", "i", "n", "u", "e", ";">>)

visit_Break(n) == PyStr(<<"b", "r", "e", "a", "k", ";">>)

(***************************************************************************)
(* The handlers of the compound nodes.  Each takes the node and the values *)
(* its visits of the children returned, in the order the code makes them:  *)
(* an exception raised by a child ends the handler with that exception.    *)
(***************************************************************************)
\* the handler's value when its child visits vs are done: the first exception
\* one of them raised, else the text
Returning(vs, text) ==
    IF FirstRaise(vs).tag = "raise" THEN FirstRaise(vs) ELSE PyStr(text)

visit_FormatSpec(n) ==
    IF n.values = <<>> THEN Raise("IndexError")
    ELSE IF n.values[1].kind # "Constant" THEN Raise("AttributeError")
    ELSE PyStr(<<"{", ":", "#">> \o n.values[1].value.s \o <<"}">>)

\* v is self.visit(node.value)
visit_FormattedValue(n, v) == IF n.value.kind = "NoNode" THEN PyNone ELSE v

\* the part of the template one value of the interpolated string adds
TemplatePart(value) ==
    IF value.kind = "Constant" THEN PyStr(value.value.s)
    ELSE IF value.format_spec.kind = "NoNode" THEN PyStr(<<"{", ":", "?", "}">>)
    ELSE visit_FormatSpec(value.format_spec)

\* fvs are the values of visit_FormattedValue on the values that are no
\* Constant, in order
visit_JoinedStr(n, fvs) ==
    LET parts == [i \in 1..Len(n.values) |-> TemplatePart(n.values[i])]
        args == StrJoin(<<",">>, fvs)
    IN  IF FirstRaise(fvs).tag = "raise" THEN FirstRaise(fvs)
        ELSE IF FirstRaise(parts).tag = "raise" THEN FirstRaise(parts)
        ELSE IF args.tag = "raise" THEN args
        ELSE PyStr(<<"f", "o", "r", "m", "a", "t", "!", "(", "\"">>
                   \o Concat([i \in 1..Len(parts) |-> parts[i].s])
                   \o <<"\"", ",">> \o args.s \o <<")">>)

\* v is self.visit(node.value), made only when node.value is a node
visit_Return(n, v) ==
    IF n.value.kind # "NoNode"
    THEN Returning(<<v>>, <<"r", "e", "t", "u", "r", "n", " ">> \o Fmt(v) \o <<";">>)
    ELSE PyStr(<<"r", "e", "t", "u", "r", "n", ";">>)

\* visit_If with the else block written whether or not there is an else-branch
visit_If_AlwaysElse(n, t, body, orelse) ==
    LET buf == <<PyStr(<<"i", "f", " ">> \o Fmt(t) \o <<" ", "{">>)>> \o body
                   \o <<PyStr(<<"}", " ", "e", "l", "s", "e", " ", "{">>)>>
                   \o orelse \o <<PyStr(<<"}">>)>>
        raised == FirstRaise(<<t>> \o body \o orelse)
    IN  IF raised.tag = "raise" THEN raised ELSE StrJoin(<<"\n">>, buf)

\* t is the visit of node.test, body and orelse those of the statements
visit_If(n, t, body, orelse) ==
    LET head == <<PyStr(<<"i", "f", " ">> \o Fmt(t) \o <<" ", "{">>)>> \o body
        buf == IF orelse # <<>>
               THEN head \o <<PyStr(<<"}", " ", "e", "l", "s", "e", " ", "{">>)>>
                         \o orelse \o <<PyStr(<<"}">>)>>
               ELSE head \o <<PyStr(<<"}">>)>>
        raised == FirstRaise(<<t>> \o body \o orelse)
    IN  IF raised.tag = "raise" THEN raised ELSE StrJoin(<<"\n">>, buf)

visit_While(n, t, body) ==
    LET buf == <<PyStr(<<"w", "h", "i", "l", "e", " ">> \o Fmt(t) \o <<" ", "{">>)>>
               \o body \o <<PyStr(<<"}">>)>>
        raised == FirstRaise(<<t>> \o body)
    IN  IF raised.tag = "raise" THEN raised ELSE StrJoin(<<"\n">>, buf)

\* the last operator of the chain, in place of the first
LastOp(n) == n.ops[Len(n.ops)]

\* node.ops[0]
FirstOp(n) == n.ops[1]

\* node.comparators[0]
FirstComparator(n) == n.comparators[1]

\* l, o, r are the visits of node.left, node.ops[0], node.comparators[0]
visit_Compare(n, l, o, r) ==
    IF FirstOp(n).kind = "In"
    THEN Returning(<<l, o, r>>, Fmt(r) \o <<".", "a", "n", "y", "(">> \o Fmt(l) \o <<")">>)
    ELSE Returning(<<l, o, r>>, Fmt(l) \o <<" ">> \o Fmt(o) \o <<" ">> \o Fmt(r))

\* o is the visit of node.op, vs those of node.values; op.join is looked up
\* before the values are visited
visit_BoolOp(n, o, vs) ==
    IF o.tag = "raise" THEN o
    ELSE IF o.tag = "None" THEN Raise("AttributeError")
    ELSE IF FirstRaise(vs).tag = "raise" THEN FirstRaise(vs)
    ELSE StrJoin(o.s, vs)

\* visit_BinOp with the parentheses left out where the operator is written
\* without spaces
visit_BinOp_BareProduct(n, l, o, r) ==
    IF n.op.kind = "Pow"
    THEN Returning(<<l, r>>, Fmt(l) \o <<".", "p", "o", "w", "(">> \o Fmt(r) \o <<")">>)
    ELSE IF n.op.kind \in {"Mult", "Div"}
    THEN Returning(<<l, o, r>>, Fmt(l) \o Fmt(o) \o Fmt(r))
    ELSE Returning(<<l, o, r>>,
                   <<"(">> \o Fmt(l) \o <<" ">> \o Fmt(o) \o <<" ">> \o Fmt(r) \o <<")">>)

\* l, o, r are the visits of node.left, node.op, node.right; for Pow the
\* operator is not visited
visit_BinOp(n, l, o, r) ==
    IF n.op.kind = "Pow"
    THEN Returning(<<l, r>>, Fmt(l) \o <<".", "p", "o", "w", "(">> \o Fmt(r) \o <<")">>)
    ELSE IF n.op.kind \in {"Mult", "Div"}
    THEN Returning(<<l, o, r>>, <<"(">> \o Fmt(l) \o Fmt(o) \o Fmt(r) \o <<")">>)
    ELSE Returning(<<l, o, r>>,
                   <<"(">> \o Fmt(l) \o <<" ">> \o Fmt(o) \o <<" ">> \o Fmt(r) \o <<")">>)

visit_UnaryOp(n, o, x) == Returning(<<o, x>>, Fmt(o) \o Fmt(x))

visit_AugAssign(n, t, o, v) ==
    Returning(<<t, o, v>>, Fmt(t) \o <<" ">> \o Fmt(o) \o <<"=", " ">> \o Fmt(v) \o <<";">>)

\* ast.NodeVisitor.generic_visit: the children are visited, their values
\* dropped, and None is returned
generic_visit(n, vs) == FirstRaise(vs)

\* the kinds with a visit_<kind> method
Handled ==
    { "JoinedStr", "FormattedValue", "Name", "Constant", "Return", "If", "Continue",
      "Break", "While", "Compare", "BoolOp", "BinOp", "UnaryOp", "AugAssign" }

RECURSIVE visit(_)
\* CLikeTranspiler.visit: a class of the operator table gives its token, any
\* other class goes to its visit_<class> method, or to generic_visit
visit(n) ==
    LET many(ns) == [i \in 1..Len(ns) |-> visit(ns[i])]
        noconst(ns) == SelectSeq(ns, LAMBDA v : v.kind # "Constant")
    IN
    IF n.kind \in DOMAIN symbols THEN PyStr(c_symbol(n))
    ELSE CASE n.kind = "Name" -> visit_Name(n)
           [] n.kind = "Constant" ->
                  (CASE n.value.pt = "int" -> visit_Num(n)
                     [] n.value.pt = "str" -> visit_Str(n)
                     [] OTHER -> visit_NameConstant(n))
           [] n.kind = "Continue" -> visit_Continue(n)
           [] n.kind = "Break" -> visit_Break(n)
           [] n.kind = "FormattedValue" -> visit_FormattedValue(n, visit(n.value))
           [] n.kind = "JoinedStr" ->
                  visit_JoinedStr(n, [i \in 1..Len(noconst(n.values)) |->
                      visit_FormattedValue(noconst(n.values)[i],
                                           visit(noconst(n.values)[i].value))])
           [] n.kind = "Return" -> visit_Return(n, visit(n.value))
           [] n.kind = "If" -> visit_If(n, visit(n.test), many(n.body), many(n.orelse))
           [] n.kind = "While" -> visit_While(n, visit(n.test), many(n.body))
           [] n.kind = "Compare" ->
                  visit_Compare(n, visit(n.left), visit(FirstOp(n)), visit(FirstComparator(n)))
           [] n.kind = "BoolOp" -> visit_BoolOp(n, visit(n.op), many(n.values))
           [] n.kind = "BinOp" -> visit_BinOp(n, visit(n.left), visit(n.op), visit(n.right))
           [] n.kind = "UnaryOp" -> visit_UnaryOp(n, visit(n.op), visit(n.operand))
           [] n.kind = "AugAssign" ->
                  visit_AugAssign(n, visit(n.target), visit(n.op), visit(n.value))
           [] n.kind = "NoNode" -> Raise("AttributeError")
           [] OTHER -> generic_visit(n, many(n.children))

(***************************************************************************)
(* The syntax trees given to the translator.                               *)
(***************************************************************************)
\* ann is the node's is_annotation attribute: "absent" or "True"
Name(id, ann) == [kind |-> "Name", id |-> id, ann |-> ann]

\* an operator node, or any node of a class without fields
Op(k) == [kind |-> k, children |-> <<>>]

IntConst(n) == [kind |-> "Constant", value |-> [pt |-> "int", n |-> n, s |-> <<>>, b |-> FALSE]]

StrConst(s) == [kind |-> "Constant", value |-> [pt |-> "str", n |-> 0, s |-> s, b |-> FALSE]]

BoolConst(b) == [kind |-> "Constant", value |-> [pt |-> "bool", n |-> 0, s |-> <<>>, b |-> b]]

NoneConst == [kind |-> "Constant", value |-> [pt |-> "None", n |-> 0, s |-> <<>>, b |-> FALSE]]

BinOp(l, o, r) == [kind |-> "BinOp", left |-> l, op |-> o, right |-> r]

UnaryOp(o, x) == [kind |-> "UnaryOp", op |-> o, operand |-> x]

BoolOp(o, vs) == [kind |-> "BoolOp", op |-> o, values |-> vs]

Compare(l, os, cs) == [kind |-> "Compare", left |-> l, ops |-> os, comparators |-> cs]

AugAssign(t, o, v) == [kind |-> "AugAssign", target |-> t, op |-> o, value |-> v]

Return(v) == [kind |-> "Return", value |-> v]

If(t, body, orelse) == [kind |-> "If", test |-> t, body |-> body, orelse |-> orelse]

While(t, body) == [kind |-> "While", test |-> t, body |-> body]

FormattedValue(v, spec) == [kind |-> "FormattedValue", value |-> v, format_spec |-> spec]

JoinedStr(vs) == [kind |-> "JoinedStr", values |-> vs]

\* a node of a class the translator has no method for, with its child nodes
Unhandled(k, cs) == [kind |-> k, children |-> cs]

\* the sequences over S of a length from lo to hi
SeqsOf(S, lo, hi) == UNION { [1..k -> S] : k \in lo..hi }

PlainIds == { <<"a">>, <<"b">>, <<"c">>, <<"x">>, <<"t", "y", "p", "e", "_">>, <<"i", "3", "2">> }

Idents == rust_keywords \cup builtin_constants \cup DOMAIN type_map \cup PlainIds

NameInputs == { Name(id, ann) : id \in Idents, ann \in {"absent", "True"} }

A == Name(<<"a">>, "absent")

B == Name(<<"b">>, "absent")

C == Name(<<"c">>, "absent")

X == Name(<<"x">>, "absent")

\* f(a): a call, which the translator has no method for
CallF == Unhandled("Call", <<Name(<<"f">>, "absent"), A>>)

\* x = 1: an assignment, which the translator has no method for
AssignX == Unhandled("Assign", <<X, IntConst(1)>>)

ConstantInputs ==
    { IntConst(0), IntConst(7), IntConst(10), IntConst(205), StrConst(<<"s">>),
      StrConst(<<"a", "\"", "b">>), BoolConst(TRUE), BoolConst(FALSE), NoneConst }

\* the binary operator classes: those of the table, and two that it lacks
BinOpKinds ==
    { "Mult", "Add", "Sub", "Div", "FloorDiv", "Mod", "LShift", "RShift", "BitXor",
      "BitOr", "BitAnd", "Pow", "MatMult" }

UnaryKinds == { "Not", "USub", "UAdd", "Invert" }

CmpKinds == { "Eq", "Is", "NotEq", "Lt", "Gt", "GtE", "LtE", "IsNot", "In", "NotIn" }

Operands ==
    { A, B, IntConst(1), CallF, BinOp(A, Op("Add"), B), BinOp(A, Op("Mult"), B),
      BinOp(A, Op("Pow"), B), UnaryOp(Op("USub"), A) }

BinOpInputs == { BinOp(l, Op(k), r) : l \in Operands, k \in BinOpKinds, r \in Operands }

UnaryOpInputs == { UnaryOp(Op(k), x) : k \in UnaryKinds, x \in Operands }

AugAssignInputs == { AugAssign(t, Op(k), v) : t \in {A, X}, k \in BinOpKinds, v \in Operands }

\* a chain's first operator is any comparison class, the later ones a few
CompareInputs ==
    UNION { { Compare(l, <<k>> \o os, cs) :
                l \in {A, IntConst(1), CallF}, k \in CmpKinds,
                os \in [1..(n - 1) -> {"Lt", "In", "NotIn"}],
                cs \in [1..n -> {B, IntConst(2)}] } : n \in 1..MaxChain }

CompareNodes ==
    { [c EXCEPT !.ops = [i \in 1..Len(c.ops) |-> Op(c.ops[i])]] : c \in CompareInputs }

BoolLeaves == {A, B, C}

BoolInner ==
    BoolLeaves \cup { UnaryOp(Op("Not"), x) : x \in BoolLeaves }
        \cup { BoolOp(Op(k), <<x, y>>) : k \in {"And", "Or"}, x \in BoolLeaves, y \in BoolLeaves }

BoolOpInputs ==
    { BoolOp(Op(k), <<x, y>>) : k \in {"And", "Or"}, x \in BoolInner, y \in BoolInner }
        \cup { BoolOp(Op(k), <<x, y, z>>) :
                 k \in {"And", "Or"}, x \in BoolLeaves, y \in BoolLeaves, z \in BoolLeaves }

NotInputs == { UnaryOp(Op("Not"), x) : x \in BoolInner }

\* the format specifiers of an expression segment: none, one literal part,
\* several parts, a nested expression first, and no part at all
FormatSpecs ==
    { NoNode,
      JoinedStr(<<StrConst(<<"0", "2">>)>>),
      JoinedStr(<<StrConst(<<"0">>), FormattedValue(Name(<<"w">>, "absent"), NoNode),
                  StrConst(<<"d">>)>>),
      JoinedStr(<<FormattedValue(Name(<<"w">>, "absent"), NoNode)>>),
      JoinedStr(<<>>) }

\* the values of an interpolated string: literal text (the second is what
\* the source text {{}} parses to) and expression segments
Segments ==
    { StrConst(<<"a", " ">>), StrConst(<<"{", "}">>) }
        \cup { FormattedValue(X, spec) : spec \in FormatSpecs }
        \cup { FormattedValue(v, NoNode) : v \in {B, CallF, BinOp(A, Op("Add"), B)} }

JoinedStrInputs == { JoinedStr(vs) : vs \in SeqsOf(Segments, 0, MaxSegs) }

FormattedValueInputs == { s \in Segments : s.kind = "FormattedValue" }

Tests == { A, Compare(A, <<Op("Eq")>>, <<IntConst(1)>>) }

Stmts ==
    { Return(A), Op("Pass"), AssignX, If(A, <<Op("Break")>>, <<>>),
      If(B, <<Return(NoNode)>>, <<Op("Continue")>>) }

IfInputs ==
    { If(t, body, orelse) :
        t \in Tests, body \in SeqsOf(Stmts, 1, MaxBody), orelse \in SeqsOf(Stmts, 0, MaxBody) }

WhileInputs == { While(t, body) : t \in Tests, body \in SeqsOf(Stmts, 1, MaxBody) }

ReturnInputs == { Return(v) : v \in Operands \cup {NoNode, IntConst(0)} }

\* nodes whose class is a key of the operator table, visited themselves
SymbolInputs == { Op(k) : k \in DOMAIN symbols }

\* nodes of a class with neither a table entry nor a method
UnhandledInputs ==
    { CallF, AssignX, Op("Pow"), Op("MatMult"), Op("NotIn"), Op("UAdd"), Op("Invert"),
      Unhandled("Expr", <<JoinedStr(<<FormattedValue(X, JoinedStr(<<>>))>>)>>) }

Inputs ==
    NameInputs \cup ConstantInputs \cup BinOpInputs \cup UnaryOpInputs
        \cup AugAssignInputs \cup CompareNodes \cup BoolOpInputs \cup NotInputs
        \cup JoinedStrInputs \cup FormattedValueInputs \cup IfInputs \cup WhileInputs
        \cup ReturnInputs \cup SymbolInputs \cup UnhandledInputs
        \cup { Op("Break"), Op("Continue") }

(***************************************************************************)
(* The state machine: one translation of one tree.  pc is "start" before   *)
(* the call of visit(node) and "done" after it, with its value in result.  *)
(***************************************************************************)
Init == /\ node \in Inputs
        /\ result = PyNone
        /\ pc = "start"

\* the call visit(node) returns
Finish ==
    /\ result' = visit(node)
    /\ pc' = "done"
    /\ UNCHANGED node

\* a node whose class is a key of the operator table
Translate_Symbol ==
    /\ pc = "start"
    /\ node.kind \in DOMAIN symbols
    /\ Finish

\* a node whose class has no method: generic_visit
Translate_Unhandled ==
    /\ pc = "start"
    /\ node.kind \notin DOMAIN symbols \cup Handled
    /\ Finish

Translate_Name ==
    /\ pc = "start"
    /\ node.kind = "Name"
    /\ Finish

Translate_Constant ==
    /\ pc = "start"
    /\ node.kind = "Constant"
    /\ Finish

Translate_JoinedStr ==
    /\ pc = "start"
    /\ node.kind = "JoinedStr"
    /\ Finish

Translate_FormattedValue ==
    /\ pc = "start"
    /\ node.kind = "FormattedValue"
    /\ Finish

Translate_Return ==
    /\ pc = "start"
    /\ node.kind = "Return"
    /\ Finish

Translate_If ==
    /\ pc = "start"
    /\ node.kind = "If"
    /\ Finish

Translate_While ==
    /\ pc = "start"
    /\ node.kind = "While"
    /\ Finish

Translate_Continue ==
    /\ pc = "start"
    /\ node.kind = "Continue"
    /\ Finish

Translate_Break ==
    /\ pc = "start"
    /\ node.kind = "Break"
    /\ Finish

Translate_Compare ==
    /\ pc = "start"
    /\ node.kind = "Compare"
    /\ Finish

Translate_BoolOp ==
    /\ pc = "start"
    /\ node.kind = "BoolOp"
    /\ Finish

Translate_BinOp ==
    /\ pc = "start"
    /\ node.kind = "BinOp"
    /\ Finish

Translate_UnaryOp ==
    /\ pc = "start"
    /\ node.kind = "UnaryOp"
    /\ Finish

Translate_AugAssign ==
    /\ pc = "start"
    /\ node.kind = "AugAssign"
    /\ Finish

Next ==
    \/ Translate_Symbol
    \/ Translate_Unhandled
    \/ Translate_Name
    \/ Translate_Constant
    \/ Translate_JoinedStr
    \/ Translate_FormattedValue
    \/ Translate_Return
    \/ Translate_If
    \/ Translate_While
    \/ Translate_Continue
    \/ Translate_Break
    \/ Translate_Compare
    \/ Translate_BoolOp
    \/ Translate_BinOp
    \/ Translate_UnaryOp
    \/ Translate_AugAssign

Spec == Init /\ [][Next]_vars

\* the translation is over
Done == pc = "done"

(***************************************************************************)
(* Operators on texts and trees that the properties are stated with.       *)
(***************************************************************************)
IsText(v) == v.tag = "str"

Failed(v) == v.tag = "raise"

Count(ch, s) == Cardinality({ i \in 1..Len(s) : s[i] = ch })

StartsWith(s, p) == Len(s) >= Len(p) /\ SubSeq(s, 1, Len(p)) = p

EndsWith(s, p) == Len(s) >= Len(p) /\ SubSeq(s, Len(s) - Len(p) + 1, Len(s)) = p

Contains(s, p) == \E i \in 1..(Len(s) - Len(p) + 1) : SubSeq(s, i, i + Len(p) - 1) = p

\* the class has neither an entry of the operator table nor a method
NoRule(n) == n.kind \notin DOMAIN symbols \cup Handled \cup {"NoNode"}

\* the node applies an operator class that the operator table lacks, in a
\* place where the translator looks the operator up
UsesUnmappedOperator(n) ==
    \/ n.kind = "BinOp" /\ n.op.kind # "Pow" /\ n.op.kind \notin DOMAIN symbols
    \/ n.kind \in {"UnaryOp", "AugAssign"} /\ n.op.kind \notin DOMAIN symbols
    \/ n.kind = "Compare" /\ n.ops[1].kind \notin DOMAIN symbols

\* the children that the handler of the node has translated
Embedded(n) ==
    CASE n.kind = "BinOp" -> {n.left, n.right}
      [] n.kind = "UnaryOp" -> {n.operand}
      [] n.kind = "AugAssign" -> {n.target, n.value}
      [] n.kind = "Compare" -> {n.left, n.comparators[1]}
      [] n.kind = "BoolOp" -> { n.values[i] : i \in 1..Len(n.values) }
      [] n.kind = "Return" -> {n.value}
      [] n.kind = "If" -> {n.test} \cup { n.body[i] : i \in 1..Len(n.body) }
                              \cup { n.orelse[i] : i \in 1..Len(n.orelse) }
      [] n.kind = "While" -> {n.test} \cup { n.body[i] : i \in 1..Len(n.body) }
      [] n.kind = "FormattedValue" -> {n.value}
      [] n.kind = "JoinedStr" ->
             { n.values[i].value : i \in { j \in 1..Len(n.values) :
                                             n.values[j].kind = "FormattedValue" } }
      [] OTHER -> {}

(***************************************************************************)
(* C1.  A node whose operator class is missing from the operator table     *)
(* (a BinOp other than Pow, a UnaryOp, the first operator of a Compare, an *)
(* AugAssign) does not translate: the translation ends in a failure and    *)
(* returns no text.                                                        *)
(***************************************************************************)
C1_UnmappedOperatorFails == (Done /\ UsesUnmappedOperator(node)) => Failed(result)

(***************************************************************************)
(* C2.  A node of a class without a translation rule is a failure: its     *)
(* translation returns no value, and no enclosing node embeds a value      *)
(* returned for it in its own text.                                        *)
(***************************************************************************)
C2_UnhandledKindFails ==
    Done => /\ (NoRule(node) /\ node.kind \notin UnaryKinds \cup BinOpKinds \cup CmpKinds)
                  => Failed(result)
            /\ (\E c \in Embedded(node) : NoRule(c)) => ~IsText(result)

(***************************************************************************)
(* C3.  Keyword-collision law as claimed: a reserved word gets the suffix  *)
(* "_" once; an identifier that is neither a reserved word nor True/False  *)
(* is returned unchanged, whatever the annotation-position attribute.      *)
(***************************************************************************)
C3_KeywordLawAsClaimed ==
    (Done /\ node.kind = "Name") =>
        /\ node.id \in rust_keywords => result = PyStr(node.id \o <<"_">>)
        /\ node.id \notin rust_keywords \cup builtin_constants => result = PyStr(node.id)

(***************************************************************************)
(* C3, amended.  A reserved word gets the suffix "_" once; an identifier   *)
(* that is neither a reserved word nor True/False is returned unchanged,   *)
(* except that a key of the primitive-type table on a node that carries    *)
(* the annotation-position attribute is replaced by the table's type.      *)
(***************************************************************************)
C3_KeywordLaw ==
    (Done /\ node.kind = "Name") =>
        /\ node.id \in rust_keywords =>
               /\ IsText(result)
               /\ Len(result.s) = Len(node.id) + 1
               /\ SubSeq(result.s, 1, Len(node.id)) = node.id
               /\ result.s[Len(result.s)] = "_"
        /\ (node.id \notin rust_keywords \cup builtin_constants
              /\ ~(node.ann # "absent" /\ node.id \in DOMAIN type_map))
               => result = PyStr(node.id)
        /\ (node.id \notin rust_keywords \cup builtin_constants
              /\ node.ann # "absent" /\ node.id \in DOMAIN type_map)
               => result = PyStr(type_map[node.id])

\* a reserved word that is also in annotation position has been translated
C3_Witness ==
    /\ Done
    /\ node.kind = "Name"
    /\ node.id = <<"t", "y", "p", "e">>
    /\ node.ann = "True"
    /\ result.s = <<"t", "y", "p", "e", "_">>

(***************************************************************************)
(* Interpolated strings.                                                   *)
(***************************************************************************)
\* the expression segments of an interpolated string, in source order
ExprSegments(n) == SelectSeq(n.values, LAMBDA v : v.kind = "FormattedValue")

FormatPrefix == <<"f", "o", "r", "m", "a", "t", "!", "(", "\"">>

\* the text that closes the template and lists the arguments args
ArgumentList(args) == <<"\"", ",">> \o JoinText(<<",">>, args) \o <<")">>

\* the template of an emitted invocation whose argument list is args
TemplateOf(s, args) ==
    SubSeq(s, Len(FormatPrefix) + 1, Len(s) - Len(ArgumentList(args)))

\* the length of the placeholder at the head of template t: an opening
\* brace, no brace, a closing brace; 0 if there is none
PlaceholderLen(t) ==
    IF t # <<>> /\ t[1] = "{" /\ \E i \in 2..Len(t) : t[i] = "}"
    THEN LET close == CHOOSE i \in 2..Len(t) :
                          t[i] = "}" /\ \A j \in 2..(i - 1) : t[j] # "}"
         IN  IF \E j \in 2..(close - 1) : t[j] = "{" THEN 0 ELSE close
    ELSE 0

RECURSIVE TemplateFollows(_, _)
\* template t is the values vs in order: a literal's text for a literal, one
\* placeholder for an expression segment, and nothing else
TemplateFollows(vs, t) ==
    IF vs = <<>> THEN t = <<>>
    ELSE IF vs[1].kind = "Constant"
    THEN /\ StartsWith(t, vs[1].value.s)
         /\ TemplateFollows(Tail(vs), SubSeq(t, Len(vs[1].value.s) + 1, Len(t)))
    ELSE /\ PlaceholderLen(t) > 0
         /\ TemplateFollows(Tail(vs), SubSeq(t, PlaceholderLen(t) + 1, Len(t)))

\* the format specifier is exactly one part of literal text
WellFormedSpec(spec) == Len(spec.values) = 1 /\ spec.values[1].kind = "Constant"

(***************************************************************************)
(* C4.  Interpolation ordering law: the invocation emitted for an          *)
(* interpolated string with k expression segments lists exactly the k      *)
(* translations of those segments, in source order, and its template has   *)
(* exactly k placeholders, the i-th at the place of the i-th segment.      *)
(***************************************************************************)
C4_InterpolationOrder ==
    (Done /\ node.kind = "JoinedStr" /\ IsText(result)) =>
        LET segs == ExprSegments(node)
            args == [i \in 1..Len(segs) |-> Fmt(visit(segs[i].value))]
            tpl == TemplateOf(result.s, args)
        IN  /\ StartsWith(result.s, FormatPrefix)
            /\ EndsWith(result.s, ArgumentList(args))
            /\ Len(result.s) >= Len(FormatPrefix) + Len(ArgumentList(args))
            /\ TemplateFollows(node.values, tpl)
            /\ Count("{", tpl) = Len(segs)
            /\ Count("}", tpl) = Len(segs)

(***************************************************************************)
(* C9.  An expression segment whose format specifier is not exactly one    *)
(* part of literal text makes the translation of the interpolated string   *)
(* fail; no placeholder is built from a part of the specifier.             *)
(***************************************************************************)
C9_MalformedSpecFails ==
    (Done /\ node.kind = "JoinedStr"
          /\ \E i \in 1..Len(node.values) :
                 /\ node.values[i].kind = "FormattedValue"
                 /\ node.values[i].format_spec.kind # "NoNode"
                 /\ ~WellFormedSpec(node.values[i].format_spec))
        => Failed(result)

(***************************************************************************)
(* Binary operations.                                                      *)
(***************************************************************************)
\* the binary operators that the claim has written without spaces
TightKinds == {"Mult", "Div", "FloorDiv", "Mod"}

\* text s opens with a parenthesis that its last character closes
Enclosed(s) ==
    /\ Len(s) >= 2
    /\ s[1] = "("
    /\ s[Len(s)] = ")"
    /\ \A i \in 1..(Len(s) - 1) :
           Count("(", SubSeq(s, 1, i)) > Count(")", SubSeq(s, 1, i))
    /\ Count("(", s) = Count(")", s)

(***************************************************************************)
(* C5.  Operator coverage: a node that applies an operator class of the    *)
(* operator table translates to text with the table's token in the         *)
(* operator's place (a membership comparison to its method call); in a     *)
(* BinOp the token of Mult, Div, FloorDiv and Mod stands without spaces    *)
(* around it, the token of any other operator with one space on each side. *)
(***************************************************************************)
C5_OperatorCoverage ==
    (Done /\ IsText(result)) =>
        /\ (node.kind = "BinOp" /\ node.op.kind \in DOMAIN symbols) =>
               LET l == Fmt(visit(node.left))
                   r == Fmt(visit(node.right))
                   sep == IF node.op.kind \in TightKinds THEN <<>> ELSE <<" ">>
               IN  result.s = <<"(">> \o l \o sep \o symbols[node.op.kind] \o sep \o r \o <<")">>
        /\ (node.kind = "UnaryOp" /\ node.op.kind \in DOMAIN symbols) =>
               StartsWith(result.s, symbols[node.op.kind])
        /\ (node.kind = "AugAssign" /\ node.op.kind \in DOMAIN symbols) =>
               Contains(result.s, <<" ">> \o symbols[node.op.kind] \o <<"=", " ">>)
        /\ node.kind = "BoolOp" => Contains(result.s, symbols[node.op.kind])
        /\ (node.kind = "Compare" /\ node.ops[1].kind \in DOMAIN symbols \ {"In"}) =>
               Contains(result.s, <<" ">> \o symbols[node.ops[1].kind] \o <<" ">>)
        /\ node.kind \in DOMAIN symbols => result.s = symbols[node.kind]

(***************************************************************************)
(* C6.  As claimed: the text of every BinOp, exponentiation included,      *)
(* opens with "(" and ends with ")", the pair enclosing the whole text.    *)
(***************************************************************************)
C6_AlwaysParenthesized ==
    (Done /\ node.kind = "BinOp" /\ IsText(result)) => Enclosed(result.s)

(***************************************************************************)
(* C6, amended.  The text of every BinOp other than an exponentiation      *)
(* opens with "(" and ends with ")", the pair enclosing the whole text;    *)
(* an exponentiation translates to <left>.pow(<right>), with no            *)
(* parentheses around it.                                                  *)
(***************************************************************************)
C6_Parenthesized ==
    (Done /\ node.kind = "BinOp" /\ IsText(result)) =>
        IF node.op.kind = "Pow"
        THEN result.s = Fmt(visit(node.left)) \o <<".", "p", "o", "w", "(">>
                            \o Fmt(visit(node.right)) \o <<")">>
        ELSE Enclosed(result.s)

\* a product of a sum has been translated: the operand keeps its parentheses
\* inside those of the product
C6_Witness ==
    /\ Done
    /\ node.kind = "BinOp"
    /\ node.op.kind = "Mult"
    /\ node.left = BinOp(A, Op("Add"), B)
    /\ node.right = B
    /\ result.s = <<"(", "(", "a", " ", "+", " ", "b", ")", "*", "b", ")">>

(***************************************************************************)
(* C7.  The translation of a Compare is that of its left operand, first    *)
(* operator and first comparator alone, whatever follows in the chain:     *)
(* <R>.any(<L>) when the first operator is In, and <L> <token> <R> with    *)
(* the operator table's token when it is another operator of the table.    *)
(***************************************************************************)
C7_FirstPairOnly ==
    (Done /\ node.kind = "Compare") =>
        LET l == Fmt(visit(node.left))
            r == Fmt(visit(node.comparators[1]))
            k == node.ops[1].kind
        IN  /\ result = visit(Compare(node.left, <<node.ops[1]>>, <<node.comparators[1]>>))
            /\ k = "In" => result = PyStr(r \o <<".", "a", "n", "y", "(">> \o l \o <<")">>)
            /\ k \in DOMAIN symbols \ {"In"} =>
                   result = PyStr(l \o <<" ">> \o symbols[k] \o <<" ">> \o r)

\* a chain of two pairs, the first an equality and the second a membership
\* test, has been translated
C7_Witness ==
    /\ Done
    /\ node.kind = "Compare"
    /\ Len(node.ops) = 2
    /\ node.ops[1].kind = "Eq"
    /\ node.ops[2].kind = "In"
    /\ node.left = A
    /\ node.comparators = <<B, IntConst(2)>>
    /\ result.s = <<"a", " ", "=", "=", " ", "b">>

(***************************************************************************)
(* Conditionals.                                                           *)
(***************************************************************************)
RECURSIVE Lines(_)
\* the lines of a text
Lines(s) ==
    IF \E i \in 1..Len(s) : s[i] = "\n"
    THEN LET i == CHOOSE i \in 1..Len(s) : s[i] = "\n" /\ \A j \in 1..(i - 1) : s[j] # "\n"
         IN  <<SubSeq(s, 1, i - 1)>> \o Lines(SubSeq(s, i + 1, Len(s)))
    ELSE <<s>>

\* the lines of the translations of a sequence of statements
LinesOf(stmts) == Concat([i \in 1..Len(stmts) |-> Lines(visit(stmts[i]).s)])

\* d blocks are open before line i of the lines ls
DepthBefore(ls, i, d) ==
    LET before == Concat(SubSeq(ls, 1, i - 1))
    IN  Count("{", before) = Count("}", before) + d

ElseLine == <<"}", " ", "e", "l", "s", "e", " ", "{">>

\* the lines that open a conditional outside every block
OwnIfLines(ls) ==
    { i \in 1..Len(ls) :
        /\ DepthBefore(ls, i, 0)
        /\ StartsWith(ls[i], <<"i", "f", " ">>)
        /\ EndsWith(ls[i], <<" ", "{">>) }

\* the else lines of the outermost conditional
OwnElseLines(ls) == { i \in 1..Len(ls) : DepthBefore(ls, i, 1) /\ ls[i] = ElseLine }

\* no block is closed before it is opened, and every block is closed
Balanced(s) ==
    /\ Count("{", s) = Count("}", s)
    /\ \A i \in 1..Len(s) : Count("{", SubSeq(s, 1, i)) >= Count("}", SubSeq(s, 1, i))

(***************************************************************************)
(* C8.  A conditional whose parts translate is the lines: if <cond> {, the *)
(* lines of each body statement in order, then } else {, the lines of each *)
(* else statement in order and } when there is an else-branch, and a       *)
(* single } with no else line when there is none.  The text has one if     *)
(* line and at most one else line of its own, and its braces balance.      *)
(***************************************************************************)
C8_Conditional ==
    (Done /\ node.kind = "If" /\ IsText(result)) =>
        LET ls == Lines(result.s)
            head == <<"i", "f", " ">> \o Fmt(visit(node.test)) \o <<" ", "{">>
        IN  /\ ls = <<head>> \o LinesOf(node.body)
                      \o (IF node.orelse # <<>>
                          THEN <<ElseLine>> \o LinesOf(node.orelse) \o <<<<"}">>>>
                          ELSE <<<<"}">>>>)
            /\ OwnIfLines(ls) = {1}
            /\ Cardinality(OwnElseLines(ls)) = (IF node.orelse # <<>> THEN 1 ELSE 0)
            /\ Balanced(result.s)

\* a conditional without an else-branch, whose body is a conditional with
\* one, has been translated
C8_Witness ==
    /\ Done
    /\ node = If(A, <<If(B, <<Return(NoNode)>>, <<Op("Continue")>>)>>, <<>>)
    /\ IsText(result)
    /\ Len(Lines(result.s)) = 7

(***************************************************************************)
(* Boolean operations.                                                     *)
(***************************************************************************)
BoolTrees == BoolOpInputs \cup NotInputs

RECURSIVE SourceTokens(_)
\* the operands and operators of a tree of BoolOp and Not nodes in source
\* order, without its grouping
SourceTokens(n) ==
    CASE n.kind = "Name" -> <<n.id>>
      [] n.kind = "UnaryOp" -> <<<<n.op.kind>>>> \o SourceTokens(n.operand)
      [] n.kind = "BoolOp" ->
             JoinText(<<<<n.op.kind>>>>, [i \in 1..Len(n.values) |-> SourceTokens(n.values[i])])

\* the truth assignments to the operands
Assignments == [{ l.id : l \in BoolLeaves } -> BOOLEAN]

RECURSIVE Truth(_, _)
\* the truth value of a tree of BoolOp and Not nodes under an assignment
Truth(n, env) ==
    CASE n.kind = "Name" -> env[n.id]
      [] n.kind = "UnaryOp" -> ~Truth(n.operand, env)
      [] n.kind = "BoolOp" /\ n.op.kind = "And" ->
             \A i \in 1..Len(n.values) : Truth(n.values[i], env)
      [] n.kind = "BoolOp" /\ n.op.kind = "Or" ->
             \E i \in 1..Len(n.values) : Truth(n.values[i], env)

\* the two trees are the same operands and operators in the same order,
\* nested differently, and the nesting changes what they mean
DifferInNesting(m, n) ==
    /\ m # n
    /\ SourceTokens(m) = SourceTokens(n)
    /\ \E env \in Assignments : Truth(m, env) # Truth(n, env)

(***************************************************************************)
(* C10.  Translation keeps the grouping of nested boolean and Not          *)
(* operations apart: no tree that differs from the translated one only in  *)
(* how its operations are nested (the nesting changing its meaning)        *)
(* translates to the same text.                                            *)
(***************************************************************************)
C10_GroupingKept ==
    (Done /\ node \in BoolTrees) =>
        \A other \in BoolTrees : DifferInNesting(other, node) => visit(other) # result

====
